---- MODULE Spec2Model ----
(***************************************************************************)
(* Model of aozora-furigana: the fetch / extract / decode / clean pipeline *)
(* (src/aozora.py, duplicated in src/app.py) and its three HTTP delivery   *)
(* boundaries (src/api/convert.py: POST /api/convert; src/app.py: POST /   *)
(* and POST /download).                                                    *)
(*                                                                         *)
(* A text is a sequence of characters.  A character is a string naming it: *)
(*   "-"    HYPHEN-MINUS          "LF"   line feed        "CR"  return      *)
(*   "SP"   space                 "IDSP" U+3000 ideographic space          *)
(*   "RO"   U+300A  (ruby open)   "RC"   U+300B (ruby close)               *)
(*   "BO"   U+FF3B  (note open)   "SH"   U+FF03 (full-width number sign)   *)
(*   "BC"   U+FF3D  (note close)                                           *)
(*   "TEI" "HON" "COL"   the three characters of the colophon marker       *)
(*   anything else ("a", "b", ...) is an ordinary character.               *)
(***************************************************************************)
EXTENDS Naturals, Sequences, FiniteSets

VARIABLES
    \* ---- the normalizer run on its own (SpecNorm) ----
    alphabet,   \* the family of tokens the input text is drawn from
    raw,        \* the argument `text` of _strip_ruby_and_notes
    typed,      \* number of tokens the input text was put together from
    phase,      \* "typing" while the input is being chosen, "done" after the call
    hist,       \* the value of the local `text` after each statement of the call
    \* ---- one request through a delivery boundary (Spec) ----
    pc,         \* position of the request handler
    boundary,   \* "api" | "index" | "download"
    json,       \* request JSON body, a dict with at most the key "url"
    form,       \* request form, a dict with at most the keys "url", "action"
    zip_url,    \* the stripped url the handler passes to the pipeline
    tmp_dir,    \* "none" | "exists" | "removed": the TemporaryDirectory
    files,      \* contents of tmp_dir: file name -> file content
    remote,     \* what the remote host answered to urlretrieve
    extracted,  \* path returned by _extract_text_path
    raw_text,   \* decoded text of the extracted file
    exc,        \* exception in flight (NoExc when none)
    result,     \* return value of fetch_clean_text
    response,   \* the HTTP response sent
    net_calls   \* number of urlretrieve calls made for this request

normVars == <<alphabet, raw, typed, phase, hist>>
pipeVars == <<pc, boundary, json, form, zip_url, tmp_dir, files, remote,
              extracted, raw_text, exc, result, response, net_calls>>
vars == <<alphabet, raw, typed, phase, hist, pc, boundary, json, form, zip_url,
          tmp_dir, files, remote, extracted, raw_text, exc, result, response,
          net_calls>>

(***************************************************************************)
(* Characters                                                              *)
(***************************************************************************)
HY == "-"
LF == "LF"
CR == "CR"
SP == "SP"
IDSP == "IDSP"
RO == "RO"
RC == "RC"
BO == "BO"
SH == "SH"
BC == "BC"

\* the literal of line 56
ColophonMarker == <<"TEI", "HON", "COL">>

\* characters of the model that str.strip() treats as whitespace
Whitespace == {SP, CR, LF, IDSP}

\* \-{5,} and \n{3,}
HyphenRunMin == 5
NewlineRunMin == 3

(***************************************************************************)
(* The normalizer, _strip_ruby_and_notes, statement by statement           *)
(***************************************************************************)

\* length of the run of character c that starts at position i of t
RECURSIVE RunLen(_, _, _)
RunLen(t, c, i) ==
    IF i > Len(t) \/ t[i] # c THEN 0 ELSE 1 + RunLen(t, c, i + 1)

\* re.split(r"\-{5,}", text): scan left to right, a match is a greedy run of
\* at least HyphenRunMin hyphens; cur is the section being accumulated
RECURSIVE SplitFrom(_, _, _)
SplitFrom(t, i, cur) ==
    IF i > Len(t) THEN <<cur>>
    ELSE LET n == RunLen(t, HY, i)
         IN  IF n >= HyphenRunMin
             THEN <<cur>> \o SplitFrom(t, i + n, <<>>)
             ELSE SplitFrom(t, i + 1, Append(cur, t[i]))

ReSplitHyphens(t) == SplitFrom(t, 1, <<>>)

\* the slip of taking index 2 as the second section
FrontMatter_SecondSection(t) ==
    LET sections == ReSplitHyphens(t)
    IN  IF Len(sections) >= 3 THEN sections[2] ELSE t

\* lines 53-55: sections = re.split(...); if len(sections) >= 3: text = sections[2]
\* (Python index 2 is the third section)
FrontMatter(t) ==
    LET sections == ReSplitHyphens(t)
    IN  IF Len(sections) >= 3 THEN sections[3] ELSE t

\* str.find: first position >= i where m occurs in t, 0 when there is none
RECURSIVE FindFrom(_, _, _)
FindFrom(t, m, i) ==
    IF i + Len(m) - 1 > Len(t) THEN 0
    ELSE IF SubSeq(t, i, i + Len(m) - 1) = m THEN i
    ELSE FindFrom(t, m, i + 1)

\* str.rfind: last position where m occurs in t, 0 when there is none
RECURSIVE RFindFrom(_, _, _)
RFindFrom(t, m, i) ==
    IF i < 1 THEN 0
    ELSE IF i + Len(m) - 1 <= Len(t) /\ SubSeq(t, i, i + Len(m) - 1) = m THEN i
    ELSE RFindFrom(t, m, i - 1)

\* the slip of cutting at the last marker (rsplit) instead of the first
Colophon_LastMarker(t) ==
    LET p == RFindFrom(t, ColophonMarker, Len(t))
    IN  IF p = 0 THEN t ELSE SubSeq(t, 1, p - 1)

\* line 56: text.split(marker, 1)[0]
Colophon(t) ==
    LET p == FindFrom(t, ColophonMarker, 1)
    IN  IF p = 0 THEN t ELSE SubSeq(t, 1, p - 1)

\* the lazy tail  .+?close  tried from position j, one character of `.+`
\* having been consumed already: `.` is any character but a line feed
RECURSIVE LazyClose(_, _, _)
LazyClose(t, close, j) ==
    IF j > Len(t) THEN 0
    ELSE IF t[j] = close THEN j
    ELSE IF t[j] = LF THEN 0
    ELSE LazyClose(t, close, j + 1)

\* position of the last character of a match of  open .+? close  that starts
\* at i, 0 when the pattern does not match at i
MatchEnd(t, open, close, i) ==
    LET s == i + Len(open)
    IN  IF s - 1 > Len(t) \/ SubSeq(t, i, s - 1) # open THEN 0
        ELSE IF s > Len(t) \/ t[s] = LF THEN 0
        ELSE LazyClose(t, close, s + 1)

\* re.sub(open .+? close, "", text): leftmost non-overlapping matches removed
RECURSIVE SubFrom(_, _, _, _)
SubFrom(t, open, close, i) ==
    IF i > Len(t) THEN <<>>
    ELSE LET e == MatchEnd(t, open, close, i)
         IN  IF e > 0 THEN SubFrom(t, open, close, e + 1)
             ELSE <<t[i]>> \o SubFrom(t, open, close, i + 1)

\* line 57
RemoveRuby(t) == SubFrom(t, <<RO>>, RC, 1)

\* line 58
RemoveNotes(t) == SubFrom(t, <<BO, SH>>, BC, 1)

\* str.replace(old, new): leftmost non-overlapping occurrences
RECURSIVE ReplaceFrom(_, _, _, _)
ReplaceFrom(t, old, new, i) ==
    IF i > Len(t) THEN <<>>
    ELSE IF i + Len(old) - 1 <= Len(t) /\ SubSeq(t, i, i + Len(old) - 1) = old
         THEN new \o ReplaceFrom(t, old, new, i + Len(old))
         ELSE <<t[i]>> \o ReplaceFrom(t, old, new, i + 1)

\* line 59
RemoveIdeographicSpace(t) == ReplaceFrom(t, <<IDSP>>, <<>>, 1)

\* line 60
NormalizeLineEndings(t) == ReplaceFrom(t, <<CR, LF>>, <<LF>>, 1)

RECURSIVE CollapseFrom(_, _, _)
CollapseFrom(t, i, repl) ==
    IF i > Len(t) THEN <<>>
    ELSE LET n == RunLen(t, LF, i)
         IN  IF n >= NewlineRunMin
             THEN repl \o CollapseFrom(t, i + n, repl)
             ELSE <<t[i]>> \o CollapseFrom(t, i + 1, repl)

\* the slip of replacing a run by one line feed
CollapseBlankLines_ToOne(t) == CollapseFrom(t, 1, <<LF>>)

\* line 61: re.sub(r"\n{3,}", "\n\n", text)
CollapseBlankLines(t) == CollapseFrom(t, 1, <<LF, LF>>)

RECURSIVE LStrip(_)
LStrip(t) ==
    IF t # <<>> /\ Head(t) \in Whitespace THEN LStrip(Tail(t)) ELSE t

RECURSIVE RStrip(_)
RStrip(t) ==
    IF t # <<>> /\ t[Len(t)] \in Whitespace
    THEN RStrip(SubSeq(t, 1, Len(t) - 1)) ELSE t

\* str.strip()
Strip(t) == RStrip(LStrip(t))

\* the local `text` after each statement of _strip_ruby_and_notes
Statements(t) ==
    LET front == FrontMatter(t)
        colophon == Colophon(front)
        ruby == RemoveRuby(colophon)
        notes == RemoveNotes(ruby)
        nospace == RemoveIdeographicSpace(notes)
        crlf == NormalizeLineEndings(nospace)
        collapsed == CollapseBlankLines(crlf)
    IN  [front |-> front, colophon |-> colophon, ruby |-> ruby,
         notes |-> notes, nospace |-> nospace, crlf |-> crlf,
         collapsed |-> collapsed, result |-> Strip(collapsed)]

StripRubyAndNotes(t) == Statements(t).result

(***************************************************************************)
(* Values of the pipeline                                                  *)
(***************************************************************************)
NoExc == "none"

\* None, where a text (a url, a path, a decoded text) is expected
NoValue == <<"(none)">>

\* x or y, for x a str or None
Or(x, y) == IF x = NoValue \/ x = <<>> THEN y ELSE x

\* the three AozoraProcessingError raised by the pipeline, by message
DownloadFailed == "download-failed"
ExtractFailed == "extract-failed"
NoTextFound == "no-text-found"
Classified == {DownloadFailed, ExtractFailed, NoTextFound}

\* what is not an AozoraProcessingError: bytes.decode("shift_jis") failing
DecodeError == "UnicodeDecodeError"

\* the messages the handlers put in a response
MsgEnterUrl == "enter-the-zip-url"
MsgUrlEmpty == "url-is-empty-cannot-download"
MsgUnexpected == "unexpected-error-check-the-url"
MsgFlaskInternalServerError == "flask-internal-server-error-page"

\* str(exc) of an AozoraProcessingError
Message(e) == e

\* a url is a sequence of pieces: scheme and host, then the path, a "/"
\* before each segment, a segment being a stem and an extension
Urls ==
    { <<"http://h">>,
      <<"http://h", "/">>,
      <<"http://h", "/", "book", ".zip">>,
      <<"http://h", "/", "book", ".txt">> }

\* values of a submitted url field
UrlFieldValues ==
    {NoValue, <<>>, <<SP>>, <<IDSP, LF>>} \cup Urls
        \cup {<<SP>> \o u \o <<CR, LF>> : u \in {<<"http://h", "/", "book", ".zip">>}}

ActionFieldValues == {"absent", "convert", "clear", "other"}

\* file contents: kind, the archive held (id), and the text the bytes decode
\* to as Shift_JIS (NoValue when they are not valid Shift_JIS)
TextA == <<IDSP, "a", RO, "b", RC, CR, LF>>
TextB == <<>>
TextFile(t) == [kind |-> "text", id |-> "", text |-> t]
BinaryFile == [kind |-> "binary", id |-> "", text |-> NoValue]
HtmlPage == [kind |-> "html", id |-> "", text |-> <<"h", "t", "m", "l">>]
ZipArchive(id, asText) == [kind |-> "zip", id |-> id, text |-> asText]
NoContent == [kind |-> "none", id |-> "", text |-> NoValue]

ZipIds == {"text", "notext", "two", "badtext", "empty"}

\* members of an archive
Entries(id) ==
    CASE id = "text" -> {[name |-> <<"book", ".txt">>, content |-> TextFile(TextA)],
                         [name |-> <<"cover", ".png">>, content |-> BinaryFile]}
      [] id = "notext" -> {[name |-> <<"cover", ".png">>, content |-> BinaryFile],
                           [name |-> <<"readme", ".html">>, content |-> HtmlPage]}
      [] id = "two" -> {[name |-> <<"a", ".txt">>, content |-> TextFile(TextA)],
                        [name |-> <<"b", ".txt">>, content |-> TextFile(TextB)]}
      [] id = "badtext" -> {[name |-> <<"book", ".txt">>, content |-> BinaryFile]}
      [] OTHER -> {}

\* what urlretrieve can be answered: a failure, or a payload (an archive,
\* whose raw bytes may or may not happen to be valid Shift_JIS, or a page)
RemoteAnswers ==
    {[ok |-> FALSE, content |-> NoContent]}
        \cup {[ok |-> TRUE, content |-> c] :
                c \in {HtmlPage} \cup {ZipArchive(id, g) :
                                          id \in ZipIds, g \in {NoValue, <<"P", "K">>}}}

NoResponse == [status |-> 0, error |-> "", text |-> NoValue]

(***************************************************************************)
(* Delivery boundaries, validation: convert.py 12-15, app.py 78-85, 104-114 *)
(***************************************************************************)
ApiUrl(j, f) == Strip(Or(Or(j.url, f.url), <<>>))

\* the slip of leaving out .strip()
FormUrl_NoStrip(f) == Or(f.url, <<>>)

\* (request.form.get("url") or "").strip()
FormUrl(f) == Strip(Or(f.url, <<>>))

\* request.form.get("action", "convert")
FormAction(f) == IF f.action = "absent" THEN "convert" ELSE f.action

Receive(b, j, f) ==
    /\ pc = "idle"
    /\ pc' = "handler"
    /\ boundary' = b
    /\ json' = j
    /\ form' = f
    /\ UNCHANGED <<zip_url, tmp_dir, files, remote, extracted, raw_text, exc,
                   result, response, net_calls>>
    /\ UNCHANGED normVars

\* a request carries its url in a JSON body or in a form, not in both
ReceiveAny ==
    \/ \E u \in UrlFieldValues :
          Receive("api", [url |-> u], [url |-> NoValue, action |-> "absent"])
    \/ \E u \in UrlFieldValues :
          Receive("api", [url |-> NoValue], [url |-> u, action |-> "absent"])
    \/ \E u \in UrlFieldValues, a \in ActionFieldValues :
          Receive("index", [url |-> NoValue], [url |-> u, action |-> a])
    \/ \E u \in UrlFieldValues :
          Receive("download", [url |-> NoValue], [url |-> u, action |-> "absent"])

Reply(status, error, text) ==
    /\ pc' = "responded"
    /\ response' = [status |-> status, error |-> error, text |-> text]

ConvertValidate ==
    /\ pc = "handler"
    /\ boundary = "api"
    /\ zip_url' = ApiUrl(json, form)
    /\ IF zip_url' = <<>>
       THEN Reply(400, MsgEnterUrl, NoValue)
       ELSE pc' = "enter" /\ UNCHANGED response
    /\ UNCHANGED <<boundary, json, form, tmp_dir, files, remote, extracted,
                   raw_text, exc, result, net_calls>>
    /\ UNCHANGED normVars

IndexValidate ==
    /\ pc = "handler"
    /\ boundary = "index"
    /\ IF FormAction(form) = "clear"
       THEN zip_url' = <<>> /\ Reply(200, "", NoValue)
       ELSE /\ zip_url' = FormUrl(form)
            /\ IF zip_url' = <<>>
               THEN Reply(200, MsgEnterUrl, NoValue)
               ELSE pc' = "enter" /\ UNCHANGED response
    /\ UNCHANGED <<boundary, json, form, tmp_dir, files, remote, extracted,
                   raw_text, exc, result, net_calls>>
    /\ UNCHANGED normVars

DownloadValidate ==
    /\ pc = "handler"
    /\ boundary = "download"
    /\ zip_url' = FormUrl(form)
    /\ IF zip_url' = <<>>
       THEN Reply(400, MsgUrlEmpty, NoValue)
       ELSE pc' = "enter" /\ UNCHANGED response
    /\ UNCHANGED <<boundary, json, form, tmp_dir, files, remote, extracted,
                   raw_text, exc, result, net_calls>>
    /\ UNCHANGED normVars

(***************************************************************************)
(* The pipeline: fetch_clean_text (aozora.py) = fetch_aozora_text (app.py) *)
(***************************************************************************)
\* urlparse(zip_url).path: from the first "/" on
RECURSIVE UrlPath(_)
UrlPath(u) ==
    IF u = <<>> THEN <<>>
    ELSE IF Head(u) = "/" THEN u
    ELSE UrlPath(Tail(u))

\* Path(p).name: the last segment
RECURSIVE PathName(_)
PathName(p) ==
    IF p = <<>> \/ p[Len(p)] = "/" THEN <<>>
    ELSE Append(PathName(SubSeq(p, 1, Len(p) - 1)), p[Len(p)])

\* line 30: Path(urlparse(zip_url).path or "aozora.zip").name
DestinationName(u) == PathName(Or(UrlPath(u), <<"aozora", ".zip">>))

\* the file of that name in a directory listing
FileNamed(dir, name) == CHOOSE f \in dir : f.name = name

\* writing files into a directory replaces those of the same name
WriteAll(dir, new) ==
    {f \in dir : \A g \in new : g.name # f.name} \cup new

\* glob "*.txt": the name ends in .txt and does not start with a dot
IsTxtName(name) == Len(name) >= 2 /\ name[Len(name)] = ".txt"

\* zipfile.ZipFile(path) accepts the file
\* the slip of not telling a bad archive apart (BadZipFile swallowed)
IsZipFile_Always(c) == TRUE

IsZipFile(c) == c.kind = "zip"

\* what the with statement leaves of the directory on exit, e the exception
\* in flight
\* the slip of a manual cleanup on the normal path alone
CleanupOnExit_SuccessOnly(e) == IF e = NoExc THEN "removed" ELSE "exists"

CleanupOnExit(e) == "removed"

\* with tempfile.TemporaryDirectory() as tmp_dir:
EnterTmp ==
    /\ pc = "enter"
    /\ pc' = "download"
    /\ tmp_dir' = "exists"
    /\ files' = {}
    /\ UNCHANGED <<boundary, json, form, zip_url, remote, extracted, raw_text,
                   exc, result, response, net_calls>>
    /\ UNCHANGED normVars

\* _download_zip: urlretrieve fails when the host does, and when the
\* destination is the directory itself (a url path with no last segment)
DownloadZip ==
    /\ pc = "download"
    /\ \E answer \in RemoteAnswers :
          /\ remote' = answer
          /\ net_calls' = net_calls + 1
          /\ IF answer.ok /\ DestinationName(zip_url) # <<>>
             THEN /\ files' = WriteAll(files, {[name |-> DestinationName(zip_url),
                                                content |-> answer.content]})
                  /\ pc' = "extract"
                  /\ UNCHANGED exc
             ELSE /\ exc' = DownloadFailed
                  /\ pc' = "exit"
                  /\ UNCHANGED files
    /\ UNCHANGED <<boundary, json, form, zip_url, tmp_dir, extracted, raw_text,
                   result, response>>
    /\ UNCHANGED normVars

\* _extract_text_path: extractall, then the first match of glob *.txt in
\* whatever order the directory listing has
ExtractTextPath ==
    /\ pc = "extract"
    /\ LET archive == FileNamed(files, DestinationName(zip_url)).content
       IN  IF ~IsZipFile(archive)
           THEN /\ exc' = ExtractFailed
                /\ pc' = "exit"
                /\ UNCHANGED <<files, extracted>>
           ELSE /\ files' = WriteAll(files, Entries(archive.id))
                /\ LET text_files == {f \in files' : IsTxtName(f.name)}
                   IN  IF text_files = {}
                       THEN /\ exc' = NoTextFound
                            /\ pc' = "exit"
                            /\ UNCHANGED extracted
                       ELSE /\ \E f \in text_files : extracted' = f.name
                            /\ pc' = "read"
                            /\ UNCHANGED exc
    /\ UNCHANGED <<boundary, json, form, zip_url, tmp_dir, remote, raw_text,
                   result, response, net_calls>>
    /\ UNCHANGED normVars

\* line 25: Path(extracted).read_bytes().decode("shift_jis")
ReadDecode ==
    /\ pc = "read"
    /\ pc' = "exit"
    /\ LET content == FileNamed(files, extracted).content
       IN  IF content.text = NoValue
           THEN exc' = DecodeError /\ UNCHANGED raw_text
           ELSE raw_text' = content.text /\ UNCHANGED exc
    /\ UNCHANGED <<boundary, json, form, zip_url, tmp_dir, files, remote,
                   extracted, result, response, net_calls>>
    /\ UNCHANGED normVars

\* leaving the with block, normally or with the exception in flight
ExitTmp ==
    /\ pc = "exit"
    /\ tmp_dir' = CleanupOnExit(exc)
    /\ files' = IF tmp_dir' = "removed" THEN {} ELSE files
    /\ pc' = IF exc = NoExc THEN "strip" ELSE "raised"
    /\ UNCHANGED <<boundary, json, form, zip_url, remote, extracted, raw_text,
                   exc, result, response, net_calls>>
    /\ UNCHANGED normVars

\* line 26: return _strip_ruby_and_notes(raw_text)
StripAndReturn ==
    /\ pc = "strip"
    /\ pc' = "returned"
    /\ result' = StripRubyAndNotes(raw_text)
    /\ UNCHANGED <<boundary, json, form, zip_url, tmp_dir, files, remote,
                   extracted, raw_text, exc, response, net_calls>>
    /\ UNCHANGED normVars

(***************************************************************************)
(* Delivery boundaries, the answer: convert.py 17-24, app.py 87-99, 116-138 *)
(***************************************************************************)
ConvertRespond ==
    /\ pc \in {"returned", "raised"}
    /\ boundary = "api"
    /\ IF exc = NoExc THEN Reply(200, "", result)
       ELSE IF exc \in Classified THEN Reply(400, Message(exc), NoValue)
       ELSE Reply(500, MsgUnexpected, NoValue)
    /\ UNCHANGED <<boundary, json, form, zip_url, tmp_dir, files, remote,
                   extracted, raw_text, exc, result, net_calls>>
    /\ UNCHANGED normVars

\* render_template(...) with no status: 200 whatever happened
IndexRespond ==
    /\ pc \in {"returned", "raised"}
    /\ boundary = "index"
    /\ IF exc = NoExc THEN Reply(200, "", result)
       ELSE IF exc \in Classified THEN Reply(200, Message(exc), NoValue)
       ELSE Reply(200, MsgUnexpected, NoValue)
    /\ UNCHANGED <<boundary, json, form, zip_url, tmp_dir, files, remote,
                   extracted, raw_text, exc, result, net_calls>>
    /\ UNCHANGED normVars

\* only AozoraProcessingError is caught: anything else leaves the view and
\* Flask answers 500 with its own page
DownloadRespond ==
    /\ pc \in {"returned", "raised"}
    /\ boundary = "download"
    /\ IF exc = NoExc THEN Reply(200, "", result)
       ELSE IF exc \in Classified THEN Reply(400, Message(exc), NoValue)
       ELSE Reply(500, MsgFlaskInternalServerError, NoValue)
    /\ UNCHANGED <<boundary, json, form, zip_url, tmp_dir, files, remote,
                   extracted, raw_text, exc, result, net_calls>>
    /\ UNCHANGED normVars

NormIdle ==
    /\ alphabet = "none"
    /\ raw = <<>>
    /\ typed = 0
    /\ phase = "idle"
    /\ hist = [front |-> <<>>, colophon |-> <<>>, ruby |-> <<>>, notes |-> <<>>,
               nospace |-> <<>>, crlf |-> <<>>, collapsed |-> <<>>,
               result |-> <<>>]

PipeIdle ==
    /\ pc = "idle"
    /\ boundary = "none"
    /\ json = [url |-> NoValue]
    /\ form = [url |-> NoValue, action |-> "absent"]
    /\ zip_url = <<>>
    /\ tmp_dir = "none"
    /\ files = {}
    /\ remote = [ok |-> FALSE, content |-> NoContent]
    /\ extracted = NoValue
    /\ raw_text = NoValue
    /\ exc = NoExc
    /\ result = NoValue
    /\ response = NoResponse
    /\ net_calls = 0

Init == PipeIdle /\ NormIdle

Next ==
    \/ ReceiveAny
    \/ ConvertValidate
    \/ IndexValidate
    \/ DownloadValidate
    \/ EnterTmp
    \/ DownloadZip
    \/ ExtractTextPath
    \/ ReadDecode
    \/ ExitTmp
    \/ StripAndReturn
    \/ ConvertRespond
    \/ IndexRespond
    \/ DownloadRespond

Spec == Init /\ [][Next]_vars

(***************************************************************************)
(* Vocabulary of the properties of the pipeline                            *)
(***************************************************************************)
\* a url field that is missing, empty or whitespace only
BlankField(v) == v = NoValue \/ \A i \in 1..Len(v) : v[i] \in Whitespace

BlankRequest ==
    /\ boundary # "none"
    /\ BlankField(form.url)
    /\ boundary = "api" => BlankField(json.url)

ClearRequest == boundary = "index" /\ form.action = "clear"

\* positions at which the call of the pipeline is over
CallOver == pc \in {"strip", "returned", "raised", "responded"}

\* urlretrieve wrote the payload into the directory
Downloaded == pc \notin {"idle", "handler", "enter", "download"} /\ net_calls > 0
                 /\ remote.ok /\ exc # DownloadFailed

(***************************************************************************)
(* C1  The TemporaryDirectory of a call no longer exists once the call has *)
(* returned or raised, whatever the exit path: success, download failure,  *)
(* extraction failure, no .txt entry, decode failure.                      *)
(***************************************************************************)
C1_TmpDirReleased ==
    /\ CallOver => tmp_dir # "exists"
    /\ pc \in {"strip", "returned", "raised"} => tmp_dir = "removed" /\ files = {}

\* the call raised a decode failure after the archive had been extracted
C1_Witness ==
    /\ pc = "raised"
    /\ exc = DecodeError
    /\ net_calls = 1
    /\ tmp_dir = "removed"

(***************************************************************************)
(* C2  As claimed: at every boundary a classified error is answered with a *)
(* 4xx status carrying that error's message, and any other failure with a  *)
(* 5xx status carrying only the generic message.                           *)
(***************************************************************************)
C2_StatusByFailureKind ==
    (pc = "responded" /\ exc # NoExc) =>
        IF exc \in Classified
        THEN response.status \in 400..499 /\ response.error = Message(exc)
        ELSE response.status \in 500..599 /\ response.error = MsgUnexpected

(***************************************************************************)
(* C3  As claimed: at every boundary a request whose url is missing, empty *)
(* or whitespace only is answered with an error, and no fetch (directory,  *)
(* network) is ever started for it.                                        *)
(***************************************************************************)
C3_Original ==
    BlankRequest =>
        /\ tmp_dir = "none"
        /\ net_calls = 0
        /\ pc \notin {"enter", "download", "extract", "read", "exit", "strip",
                      "returned", "raised"}
        /\ pc = "responded" => response.error # "" /\ response.text = NoValue

(***************************************************************************)
(* C3 as amended: no fetch is ever started for a request whose url is      *)
(* missing, empty or whitespace only; the request is answered with an      *)
(* error, except POST / with action clear, which is answered with the      *)
(* reset form and no error.                                                *)
(***************************************************************************)
C3_BlankUrlRejected ==
    BlankRequest =>
        /\ tmp_dir = "none"
        /\ net_calls = 0
        /\ pc \notin {"enter", "download", "extract", "read", "exit", "strip",
                      "returned", "raised"}
        /\ pc = "responded" =>
              /\ response.text = NoValue
              /\ IF ClearRequest THEN response.error = ""
                 ELSE response.error \in {MsgEnterUrl, MsgUrlEmpty}

\* a whitespace-only url rejected by POST /download
C3_Witness ==
    /\ pc = "responded"
    /\ boundary = "download"
    /\ form.url # NoValue
    /\ form.url # <<>>
    /\ BlankRequest
    /\ response.status = 400
    /\ net_calls = 0

(***************************************************************************)
(* C4  As claimed: whatever file name the url's path yields, a download    *)
(* that succeeds with a valid archive holding no .txt entry ends in the    *)
(* no-text-found error, never in text and never in another error.          *)
(***************************************************************************)
C4_NoTextFound ==
    ( /\ pc \in {"returned", "raised"}
      /\ Downloaded
      /\ remote.content.kind = "zip"
      /\ \A e \in Entries(remote.content.id) : ~IsTxtName(e.name) ) =>
        exc = NoTextFound /\ result = NoValue

(***************************************************************************)
(* C5  A download that succeeds with a payload that is no archive ends in  *)
(* the extract-failed error: no result (no empty text either) and no other *)
(* error kind.                                                             *)
(***************************************************************************)
C5_ExtractFailed ==
    (CallOver /\ Downloaded /\ remote.content.kind # "zip") =>
        /\ pc # "strip"
        /\ exc = ExtractFailed
        /\ result = NoValue
        /\ raw_text = NoValue
        /\ pc = "responded" => response.text = NoValue /\ response.error = Message(ExtractFailed)

\* an HTML page saved under a name ending in .txt, answered by the API
C5_Witness ==
    /\ pc = "responded"
    /\ boundary = "api"
    /\ Downloaded
    /\ remote.content.kind = "html"
    /\ IsTxtName(DestinationName(zip_url))
    /\ response.status = 400

(***************************************************************************)
(* The normalizer on its own: an input text is put together token by token *)
(* from one family of tokens, then _strip_ruby_and_notes is called on it.  *)
(***************************************************************************)
MaxHyphenTokens == 7
MaxColophonTokens == 5
MaxRubyTokens == 5
MaxSpaceTokens == 5

TokHyphen == {<<HY>>, <<HY, HY, HY, HY, HY>>, <<"a">>}
TokColophon == {ColophonMarker, <<"TEI">>, <<"HON", "COL">>, <<RO, "a", RC>>,
                <<IDSP>>, <<"a">>}
TokRuby == {<<RO>>, <<RC>>, <<BO, SH>>, <<BC>>, <<"a">>, <<LF>>}
TokSpace == {<<LF>>, <<CR>>, <<SP>>, <<"a">>, <<LF, LF, LF>>, <<CR, LF>>}

Families == {"hyphen", "colophon", "ruby", "space"}

Tokens(f) ==
    CASE f = "hyphen" -> TokHyphen
      [] f = "colophon" -> TokColophon
      [] f = "ruby" -> TokRuby
      [] f = "space" -> TokSpace

MaxTokens(f) ==
    CASE f = "hyphen" -> MaxHyphenTokens
      [] f = "colophon" -> MaxColophonTokens
      [] f = "ruby" -> MaxRubyTokens
      [] f = "space" -> MaxSpaceTokens

InitNorm ==
    /\ alphabet \in Families
    /\ raw = <<>>
    /\ typed = 0
    /\ phase = "typing"
    /\ hist = [front |-> <<>>, colophon |-> <<>>, ruby |-> <<>>, notes |-> <<>>,
               nospace |-> <<>>, crlf |-> <<>>, collapsed |-> <<>>,
               result |-> <<>>]
    /\ PipeIdle

TypeToken(tok) ==
    /\ phase = "typing"
    /\ typed < MaxTokens(alphabet)
    /\ raw' = raw \o tok
    /\ typed' = typed + 1
    /\ UNCHANGED <<alphabet, phase, hist>>
    /\ UNCHANGED pipeVars

CallStripRubyAndNotes ==
    /\ phase = "typing"
    /\ phase' = "done"
    /\ hist' = Statements(raw)
    /\ UNCHANGED <<alphabet, raw, typed>>
    /\ UNCHANGED pipeVars

NextNorm ==
    \/ \E tok \in Tokens(alphabet) : TypeToken(tok)
    \/ CallStripRubyAndNotes

SpecNorm == InitNorm /\ [][NextNorm]_vars

(***************************************************************************)
(* Vocabulary of the properties of the normalizer.  These say where things *)
(* are in a text by position; none of them uses the operators above.       *)
(***************************************************************************)
NonWS(t) == SelectSeq(t, LAMBDA c : c \notin Whitespace)

OccursAt(t, m, p) ==
    /\ p >= 1
    /\ p + Len(m) - 1 <= Len(t)
    /\ \A k \in 1..Len(m) : t[p + k - 1] = m[k]

Contains(t, m) == \E p \in 1..Len(t) : OccursAt(t, m, p)

\* i is where a maximal run of at least n characters c starts
IsRunStart(t, c, n, i) ==
    /\ i \in 1..Len(t)
    /\ i + n - 1 <= Len(t)
    /\ \A k \in i..(i + n - 1) : t[k] = c
    /\ (i = 1 \/ t[i - 1] # c)

RunStarts(t, c, n) == {i \in 1..Len(t) : IsRunStart(t, c, n, i)}

\* last position of the maximal run of c that holds position i
RunEndOf(t, c, i) ==
    CHOOSE j \in i..Len(t) :
        /\ \A k \in i..j : t[k] = c
        /\ (j = Len(t) \/ t[j + 1] # c)

SetMin(S) == CHOOSE x \in S : \A y \in S : x <= y

RECURSIVE IsSubsequence(_, _)
IsSubsequence(a, b) ==
    IF a = <<>> THEN TRUE
    ELSE IF b = <<>> THEN FALSE
    ELSE IF Head(a) = Head(b) THEN IsSubsequence(Tail(a), Tail(b))
    ELSE IsSubsequence(a, Tail(b))

NoTripleLF(t) == \A i \in 1..Len(t) : ~OccursAt(t, <<LF, LF, LF>>, i)

Trimmed(t) == t = <<>> \/ (t[1] \notin Whitespace /\ t[Len(t)] \notin Whitespace)

(***************************************************************************)
(* C10  Front-matter removal.  With fewer than 2 maximal runs of 5 or more *)
(* hyphens, lines 53-55 leave the text unchanged; with 2 or more they      *)
(* yield exactly the text between the end of the 2nd run and the start of  *)
(* the 3rd run (or the end of the text when there is no 3rd run).          *)
(***************************************************************************)
HyphenRuns(t) == RunStarts(t, HY, HyphenRunMin)

BetweenSecondAndThirdRun(t) ==
    LET S == HyphenRuns(t)
        s2 == CHOOSE i \in S : Cardinality({j \in S : j < i}) = 1
        later == {j \in S : j > s2}
        stop == IF later = {} THEN Len(t) ELSE SetMin(later) - 1
    IN  SubSeq(t, RunEndOf(t, HY, s2) + 1, stop)

C10_FrontMatterStep ==
    phase = "done" =>
        IF Cardinality(HyphenRuns(raw)) < 2
        THEN hist.front = raw
        ELSE hist.front = BetweenSecondAndThirdRun(raw)

\* a text with three runs, one of them longer than 5, and a non-empty body
C10_Witness ==
    /\ phase = "done"
    /\ Cardinality(HyphenRuns(raw)) >= 3
    /\ \E i \in HyphenRuns(raw) : RunEndOf(raw, HY, i) - i + 1 > HyphenRunMin
    /\ hist.front # <<>>
    /\ hist.front # raw

(***************************************************************************)
(* C9  Colophon truncation.  As claimed: when the text after front-matter  *)
(* removal contains the marker, line 56 yields exactly the prefix before   *)
(* the first occurrence of the marker, and the final output contains       *)
(* neither the marker nor any text that followed it.                       *)
(***************************************************************************)
IsPrefixBeforeFirstMarker(t, pre) ==
    \E p \in 1..Len(t) :
        /\ OccursAt(t, ColophonMarker, p)
        /\ \A q \in 1..(p - 1) : ~OccursAt(t, ColophonMarker, q)
        /\ pre = SubSeq(t, 1, p - 1)

C9_Original ==
    (phase = "done" /\ Contains(hist.front, ColophonMarker)) =>
        /\ IsPrefixBeforeFirstMarker(hist.front, hist.colophon)
        /\ ~Contains(hist.result, ColophonMarker)

(***************************************************************************)
(* C9 as amended: line 56 yields exactly the prefix before the first       *)
(* occurrence of the marker, that prefix holds no marker, and the final    *)
(* output is made of characters of that prefix alone, in their order (no   *)
(* character from the marker onward reaches it).  The output may still     *)
(* hold the three marker characters in a row when a ruby span, a note or   *)
(* an ideographic space that separated them inside the prefix is removed.  *)
(***************************************************************************)
C9_ColophonStep ==
    (phase = "done" /\ Contains(hist.front, ColophonMarker)) =>
        /\ IsPrefixBeforeFirstMarker(hist.front, hist.colophon)
        /\ ~Contains(hist.colophon, ColophonMarker)
        /\ IsSubsequence(hist.result, hist.colophon)

\* two markers in the text, a non-empty prefix before the first, and output
C9_Witness ==
    /\ phase = "done"
    /\ \E p, q \in 1..Len(hist.front) :
          /\ p < q
          /\ OccursAt(hist.front, ColophonMarker, p)
          /\ OccursAt(hist.front, ColophonMarker, q)
    /\ hist.colophon # <<>>
    /\ hist.result # <<>>

(***************************************************************************)
(* C8  Blank-line collapsing.  As claimed: every maximal run of 3 or more  *)
(* line feeds of the text after line 60 (CRLF already converted), wherever *)
(* it is, the very start and end included, appears in the output as        *)
(* exactly 2 line feeds between the same surrounding text, and the output  *)
(* never holds 3 consecutive line feeds.                                   *)
(***************************************************************************)
\* the run t[i..j] shows in out as a maximal run of exactly 2 line feeds that
\* has the same text (whitespace aside) before it and after it
AppearsAsTwo(t, out, i, j) ==
    \E k \in 0..Len(out) :
        /\ k + 2 <= Len(out)
        /\ out[k + 1] = LF
        /\ out[k + 2] = LF
        /\ (k = 0 \/ out[k] # LF)
        /\ (k + 2 = Len(out) \/ out[k + 3] # LF)
        /\ NonWS(SubSeq(out, 1, k)) = NonWS(SubSeq(t, 1, i - 1))
        /\ NonWS(SubSeq(out, k + 3, Len(out))) = NonWS(SubSeq(t, j + 1, Len(t)))

NewlineRuns(t) == RunStarts(t, LF, NewlineRunMin)

\* the run t[i..j] has a non-whitespace character before it and after it
Interior(t, i, j) ==
    /\ NonWS(SubSeq(t, 1, i - 1)) # <<>>
    /\ NonWS(SubSeq(t, j + 1, Len(t))) # <<>>

C8_Original ==
    phase = "done" =>
        /\ \A i \in NewlineRuns(hist.crlf) :
              AppearsAsTwo(hist.crlf, hist.result, i, RunEndOf(hist.crlf, LF, i))
        /\ NoTripleLF(hist.result)

(***************************************************************************)
(* C8 as amended: every maximal run of 3 or more line feeds that has a     *)
(* non-whitespace character somewhere before it and somewhere after it     *)
(* appears in the output as exactly 2 line feeds; a run inside the leading *)
(* or trailing whitespace of the text is removed whole by the final        *)
(* strip() (the output neither starts nor ends with whitespace); and the   *)
(* output never holds 3 consecutive line feeds.                            *)
(***************************************************************************)
C8_CollapseInterior ==
    phase = "done" =>
        /\ \A i \in NewlineRuns(hist.crlf) :
              Interior(hist.crlf, i, RunEndOf(hist.crlf, LF, i)) =>
                  AppearsAsTwo(hist.crlf, hist.result, i, RunEndOf(hist.crlf, LF, i))
        /\ Trimmed(hist.result)
        /\ NoTripleLF(hist.result)

\* an interior run of more than 3 line feeds, part of it written as CR LF
C8_Witness ==
    /\ phase = "done"
    /\ Contains(raw, <<CR, LF>>)
    /\ \E i \in NewlineRuns(hist.crlf) :
          /\ Interior(hist.crlf, i, RunEndOf(hist.crlf, LF, i))
          /\ RunEndOf(hist.crlf, LF, i) - i + 1 > NewlineRunMin
    /\ Contains(hist.result, <<LF, LF>>)

(***************************************************************************)
(* C6  Idempotence.  As claimed: for every text x with no run of 5 or more *)
(* hyphens, no marker, no ruby span and no note span, and otherwise any    *)
(* characters, normalize(normalize(x)) = normalize(x).                     *)
(***************************************************************************)
MarkerFree(t) ==
    /\ HyphenRuns(t) = {}
    /\ ~Contains(t, ColophonMarker)
    /\ ~\E i, j \in 1..Len(t) : i < j /\ t[i] = RO /\ t[j] = RC
    /\ ~\E i, j \in 1..Len(t) : i + 1 < j /\ OccursAt(t, <<BO, SH>>, i) /\ t[j] = BC

C6_Idempotent ==
    (phase = "done" /\ MarkerFree(raw)) =>
        StripRubyAndNotes(hist.result) = hist.result

(***************************************************************************)
(* C7  Span removal.  As claimed: when every ruby opener is closed by a    *)
(* later ruby closer and every note opener by a later note closer (spans   *)
(* of any content, empty content and content with a line break included),  *)
(* the output holds no ruby bracket, no note opener and no note closer,    *)
(* and the characters outside the spans are kept in order (whitespace      *)
(* aside).  Stated for the text the ruby step receives (after line 56).    *)
(***************************************************************************)
IsNoteOpen(t, i) == OccursAt(t, <<BO, SH>>, i)

\* position of the first closer at or after position s, 0 when there is none;
\* the span's content must hold no further opener or closer
RECURSIVE CloserFrom(_, _, _)
CloserFrom(t, close, s) ==
    IF s > Len(t) THEN 0
    ELSE IF t[s] = close THEN s
    ELSE IF t[s] \in {RO, RC, BC} \/ IsNoteOpen(t, s) THEN 0
    ELSE CloserFrom(t, close, s + 1)

\* the text from position i on is ordinary characters and well-formed spans
RECURSIVE WellFormedFrom(_, _)
WellFormedFrom(t, i) ==
    IF i > Len(t) THEN TRUE
    ELSE IF t[i] = RO
         THEN CloserFrom(t, RC, i + 1) > 0 /\ WellFormedFrom(t, CloserFrom(t, RC, i + 1) + 1)
    ELSE IF IsNoteOpen(t, i)
         THEN CloserFrom(t, BC, i + 2) > 0 /\ WellFormedFrom(t, CloserFrom(t, BC, i + 2) + 1)
    ELSE IF t[i] \in {RC, BC} THEN FALSE
    ELSE WellFormedFrom(t, i + 1)

\* the characters outside the spans of a well-formed text
RECURSIVE OutsideFrom(_, _)
OutsideFrom(t, i) ==
    IF i > Len(t) THEN <<>>
    ELSE IF t[i] = RO THEN OutsideFrom(t, CloserFrom(t, RC, i + 1) + 1)
    ELSE IF IsNoteOpen(t, i) THEN OutsideFrom(t, CloserFrom(t, BC, i + 2) + 1)
    ELSE <<t[i]>> \o OutsideFrom(t, i + 1)

NoSpanBrackets(t) ==
    \A i \in 1..Len(t) : t[i] \notin {RO, RC, BC} /\ ~IsNoteOpen(t, i)

C7_SpansRemoved ==
    (phase = "done" /\ WellFormedFrom(hist.colophon, 1)) =>
        /\ NoSpanBrackets(hist.result)
        /\ NonWS(hist.result) = NonWS(OutsideFrom(hist.colophon, 1))

====
